---- MODULE Spec2Model ----
(***************************************************************************)
(* Model of src/main.cpp: a single-block SHA-256 program.  main reads one  *)
(* line, copies it into a 64-byte buffer, sets the 0x80 marker, assembles  *)
(* 16 words, runs sha256_transform once from the initial hash value and    *)
(* prints the eight state words in hexadecimal.                            *)
(*                                                                         *)
(* A uint32_t is modelled as the pair <<hi, lo>> of its two 16-bit halves  *)
(* (value = hi * 65536 + lo), because the model checker's integers are     *)
(* narrower than an unsigned 32-bit word.  Every operation on words keeps  *)
(* both halves in 0..65535, i.e. the word in 0..2^32-1.                    *)
(***************************************************************************)
EXTENDS Integers, Sequences, FiniteSets, TLC

VARIABLES pc, input, bytes, block, state, W, a, b, c, d, e, f, g, h, t,
          output, calls, run, prevOutput

vars == <<pc, input, bytes, block, state, W, a, b, c, d, e, f, g, h, t,
          output, calls, run, prevOutput>>

\* Number of executions of the program on the same input line.
MaxRuns == 2

\* The input length main accepts.
MaxInput == 64

\* Size of the byte buffer.
BlockBytes == 64

----------------------------------------------------------------------------
\* uint32_t and its operators

Pow2(n) == 2 ^ n

Word == (0..65535) \X (0..65535)

RECURSIVE BitAnd(_, _)
BitAnd(x, y) ==
  IF x = 0 \/ y = 0 THEN 0
  ELSE (x % 2) * (y % 2) + 2 * BitAnd(x \div 2, y \div 2)

RECURSIVE BitOr(_, _)
BitOr(x, y) ==
  IF x = 0 THEN y
  ELSE IF y = 0 THEN x
  ELSE (IF x % 2 = 1 \/ y % 2 = 1 THEN 1 ELSE 0) + 2 * BitOr(x \div 2, y \div 2)

RECURSIVE BitXor(_, _)
BitXor(x, y) ==
  IF x = 0 THEN y
  ELSE IF y = 0 THEN x
  ELSE (((x % 2) + (y % 2)) % 2) + 2 * BitXor(x \div 2, y \div 2)

\* x & y, x | y, x ^ y, ~x on uint32_t
And32(x, y) == <<BitAnd(x[1], y[1]), BitAnd(x[2], y[2])>>
Or32(x, y)  == <<BitOr(x[1], y[1]), BitOr(x[2], y[2])>>
Xor32(x, y) == <<BitXor(x[1], y[1]), BitXor(x[2], y[2])>>
Not32(x)    == <<65535 - x[1], 65535 - x[2]>>

\* x + y on uint32_t (wraps at 2^32)
Add32(x, y) ==
  LET lo == x[2] + y[2]
  IN  <<(x[1] + y[1] + (lo \div 65536)) % 65536, lo % 65536>>

\* x >> n on uint32_t, 0 <= n < 32
SHR(x, n) ==
  IF n >= 16
    THEN <<0, x[1] \div Pow2(n - 16)>>
    ELSE <<x[1] \div Pow2(n),
           (x[2] \div Pow2(n)) + (x[1] % Pow2(n)) * Pow2(16 - n)>>

\* x << n on uint32_t, 0 <= n < 32 (bits shifted past bit 31 are lost)
SHL(x, n) ==
  IF n >= 16
    THEN <<(x[2] * Pow2(n - 16)) % 65536, 0>>
    ELSE <<((x[1] * Pow2(n)) % 65536) + (x[2] \div Pow2(16 - n)),
           (x[2] * Pow2(n)) % 65536>>

ROTR(x, n) == Or32(SHR(x, n), SHL(x, 32 - n))

Ch(x, y, z)  == Xor32(And32(x, y), And32(Not32(x), z))
Maj(x, y, z) == Xor32(Xor32(And32(x, y), And32(x, z)), And32(y, z))
Sigma0(x) == Xor32(Xor32(ROTR(x, 2), ROTR(x, 13)), ROTR(x, 22))
Sigma1(x) == Xor32(Xor32(ROTR(x, 6), ROTR(x, 11)), ROTR(x, 25))
\* Faulty variant: the schedule uses the round function's rotations.
sigma0Mixup(x) == Sigma0(x)
sigma0(x) == Xor32(Xor32(ROTR(x, 7), ROTR(x, 18)), SHR(x, 3))
sigma1(x) == Xor32(Xor32(ROTR(x, 17), ROTR(x, 19)), SHR(x, 10))

\* Round constants
K ==
  <<
    <<17034, 12184>>, <<28983, 17553>>, <<46528, 64463>>, <<59829, 56229>>,
    <<14678, 49755>>, <<23025, 4593>>, <<37439, 33444>>, <<43804, 24277>>,
    <<55303, 43672>>, <<4739, 23297>>, <<9265, 34238>>, <<21772, 32195>>,
    <<29374, 23924>>, <<32990, 45566>>, <<39900, 1703>>, <<49563, 61812>>,
    <<58523, 27073>>, <<61374, 18310>>, <<4033, 40390>>, <<9228, 41420>>,
    <<11753, 11375>>, <<19060, 33962>>, <<23728, 43484>>, <<30457, 35034>>,
    <<38974, 20818>>, <<43057, 50797>>, <<45059, 10184>>, <<48985, 32711>>,
    <<50912, 3059>>, <<54695, 37191>>, <<1738, 25425>>, <<5161, 10599>>,
    <<10167, 2693>>, <<11803, 8504>>, <<19756, 28156>>, <<21304, 3347>>,
    <<25866, 29524>>, <<30314, 2747>>, <<33218, 51502>>, <<37490, 11397>>,
    <<41663, 59553>>, <<43034, 26187>>, <<49739, 35696>>, <<51052, 20899>>,
    <<53650, 59417>>, <<54937, 1572>>, <<62478, 13701>>, <<4202, 41072>>,
    <<6564, 49430>>, <<7735, 27656>>, <<10056, 30540>>, <<13488, 48309>>,
    <<14620, 3251>>, <<20184, 43594>>, <<23452, 51791>>, <<26670, 28659>>,
    <<29839, 33518>>, <<30885, 25455>>, <<33992, 30740>>, <<36039, 520>>,
    <<37054, 65530>>, <<42064, 27883>>, <<48889, 41975>>, <<50801, 30962>>
  >>
IV ==
  <<<<27145, 58983>>, <<47975, 44677>>, <<15470, 62322>>, <<42319, 62778>>, <<20750, 21119>>, <<39685, 26764>>, <<8067, 55723>>, <<23520, 52505>>>>


----------------------------------------------------------------------------
\* Input lines fed to the program

Fill(n, v) == [i \in 1..n |-> v]

abc == <<97, 98, 99>>

\* Lines of every length class the padding distinguishes: empty, short,
\* 55, 56, 63 and 64 bytes (with and without 0x80 / 0x00 bytes) and one
\* line that is too long.
Messages ==
  { <<>>, abc, <<97>>, <<128>>, <<0>>,
    Fill(55, 97), Fill(56, 97), Fill(63, 97), Fill(64, 97),
    <<128>> \o Fill(63, 0), Fill(63, 97) \o <<128>>,
    Fill(65, 97) }

\* Contents an uninitialised std::array<uint32_t, 16> may hold.
Indeterminate ==
  { Fill(16, w) : w \in { <<0, 0>>, <<65535, 65535>>, <<0, 1>> } }

----------------------------------------------------------------------------
\* The steps of main and sha256_transform as operators

\* memset(bytes, 0, 64); memcpy(bytes, input.data(), input.size())
CopyBytes(m) == [i \in 1..BlockBytes |-> IF i <= Len(m) THEN m[i] ELSE 0]

\* Faulty variant: the 0x80 marker is never written.
AddPaddingNoMarker(m, by) == by

\* if (input.size() < 64) bytes[input.size()] = 0x80;
AddPadding(m, by) ==
  IF Len(m) < 64 THEN [by EXCEPT ![Len(m) + 1] = 128] ELSE by

\* The buffer handed to the word conversion for input m
PaddedBytes(m) == AddPadding(m, CopyBytes(m))

\* block[i] |= bytes[4*i+j] << (24 - 8*j), j = 0..3, from the value w0
ConvertWord(w0, by, i) ==
  LET s(j) == SHL(<<0, by[4 * i + j + 1]>>, 24 - 8 * j)
  IN  Or32(Or32(Or32(Or32(w0, s(0)), s(1)), s(2)), s(3))

ConvertToWords(blk0, by) == [i \in 1..16 |-> ConvertWord(blk0[i], by, i - 1)]

\* W[t] = sigma1(W[t-2]) + W[t-7] + sigma0(W[t-15]) + W[t-16]
ScheduleWord(w2, w7, w15, w16) ==
  Add32(Add32(Add32(sigma1(w2), w7), sigma0(w15)), w16)

RECURSIVE Extend(_)
Extend(ws) ==
  LET n == Len(ws)
  IN  IF n >= 64 THEN ws
      ELSE Extend(Append(ws, ScheduleWord(ws[n - 1], ws[n - 6],
                                          ws[n - 14], ws[n - 15])))

\* std::copy(block, W); for (t = 16; t < 64; ++t) W[t] = ...
Schedule(blk) == Extend(blk)

\* One iteration of the main loop on the working variables v = <<a..h>>
RoundStep(v, kt, wt) ==
  LET T1 == Add32(Add32(Add32(Add32(v[8], Sigma1(v[5])),
                              Ch(v[5], v[6], v[7])), kt), wt)
      T2 == Add32(Sigma0(v[1]), Maj(v[1], v[2], v[3]))
  IN  <<Add32(T1, T2), v[1], v[2], v[3], Add32(v[4], T1), v[5], v[6], v[7]>>

\* Faulty variant: the state is overwritten by the working variables.
AccumulateOverwrite(s, v) == v

\* state[i] += working variable i
Accumulate(s, v) == [i \in 1..8 |-> Add32(s[i], v[i])]

\* std::hex << std::setw(8) << std::setfill('0') << word
HexDigit == <<"0", "1", "2", "3", "4", "5", "6", "7",
              "8", "9", "a", "b", "c", "d", "e", "f">>

HexHalf(x) ==
  <<HexDigit[(x \div 4096) + 1], HexDigit[((x \div 256) % 16) + 1],
    HexDigit[((x \div 16) % 16) + 1], HexDigit[(x % 16) + 1]>>

HexWord(w) == HexHalf(w[1]) \o HexHalf(w[2])

RECURSIVE PrintWords(_)
PrintWords(s) ==
  IF s = <<>> THEN <<>> ELSE HexWord(Head(s)) \o PrintWords(Tail(s))

----------------------------------------------------------------------------
\* The program

NoWord == <<0, 0>>

Init ==
  /\ pc = "getline"
  /\ input = <<>>
  /\ bytes = <<>>
  /\ block = <<>>
  /\ state = <<>>
  /\ W = <<>>
  /\ a = NoWord /\ b = NoWord /\ c = NoWord /\ d = NoWord
  /\ e = NoWord /\ f = NoWord /\ g = NoWord /\ h = NoWord
  /\ t = 0
  /\ output = <<>>
  /\ calls = 0
  /\ run = 1
  /\ prevOutput = <<>>

\* std::getline(std::cin, input)
GetLine ==
  /\ pc = "getline"
  /\ \E m \in Messages : input' = m
  /\ pc' = "check"
  /\ UNCHANGED <<bytes, block, state, W, a, b, c, d, e, f, g, h, t,
                 output, calls, run, prevOutput>>

\* if (input.size() > 64) { ...; return 1; }
RejectTooLong ==
  /\ pc = "check"
  /\ Len(input) > MaxInput
  /\ pc' = "rejected"
  /\ UNCHANGED <<input, bytes, block, state, W, a, b, c, d, e, f, g, h, t,
                 output, calls, run, prevOutput>>

CopyInput ==
  /\ pc = "check"
  /\ ~(Len(input) > MaxInput)
  /\ bytes' = CopyBytes(input)
  /\ pc' = "pad"
  /\ UNCHANGED <<input, block, state, W, a, b, c, d, e, f, g, h, t,
                 output, calls, run, prevOutput>>

Pad ==
  /\ pc = "pad"
  /\ bytes' = AddPadding(input, bytes)
  /\ pc' = "convert"
  /\ UNCHANGED <<input, block, state, W, a, b, c, d, e, f, g, h, t,
                 output, calls, run, prevOutput>>

\* block is declared without an initialiser and then only or-ed into.
Convert ==
  /\ pc = "convert"
  /\ \E blk0 \in Indeterminate : block' = ConvertToWords(blk0, bytes)
  /\ pc' = "init"
  /\ UNCHANGED <<input, bytes, state, W, a, b, c, d, e, f, g, h, t,
                 output, calls, run, prevOutput>>

InitState ==
  /\ pc = "init"
  /\ state' = IV
  /\ pc' = "schedule"
  /\ UNCHANGED <<input, bytes, block, W, a, b, c, d, e, f, g, h, t,
                 output, calls, run, prevOutput>>

\* Entry of sha256_transform(state, block) and its schedule loop
ExpandSchedule ==
  /\ pc = "schedule"
  /\ W' = Schedule(block)
  /\ calls' = calls + 1
  /\ pc' = "load"
  /\ UNCHANGED <<input, bytes, block, state, a, b, c, d, e, f, g, h, t,
                 output, run, prevOutput>>

LoadWorking ==
  /\ pc = "load"
  /\ a' = state[1] /\ b' = state[2] /\ c' = state[3] /\ d' = state[4]
  /\ e' = state[5] /\ f' = state[6] /\ g' = state[7] /\ h' = state[8]
  /\ t' = 0
  /\ pc' = "round"
  /\ UNCHANGED <<input, bytes, block, state, W, output, calls, run,
                 prevOutput>>

Round ==
  /\ pc = "round"
  /\ t < 64
  /\ \E r \in {RoundStep(<<a, b, c, d, e, f, g, h>>, K[t + 1], W[t + 1])} :
         /\ a' = r[1] /\ b' = r[2] /\ c' = r[3] /\ d' = r[4]
         /\ e' = r[5] /\ f' = r[6] /\ g' = r[7] /\ h' = r[8]
  /\ t' = t + 1
  /\ UNCHANGED <<pc, input, bytes, block, state, W, output, calls, run,
                 prevOutput>>

AddToState ==
  /\ pc = "round"
  /\ ~(t < 64)
  /\ state' = Accumulate(state, <<a, b, c, d, e, f, g, h>>)
  /\ pc' = "print"
  /\ UNCHANGED <<input, bytes, block, W, a, b, c, d, e, f, g, h, t,
                 output, calls, run, prevOutput>>

PrintDigest ==
  /\ pc = "print"
  /\ output' = PrintWords(state)
  /\ pc' = "exit"
  /\ UNCHANGED <<input, bytes, block, state, W, a, b, c, d, e, f, g, h, t,
                 calls, run, prevOutput>>

\* The program is started again on the same line; the earlier output is
\* kept for comparison and every object of main starts afresh.
RunAgain ==
  /\ pc = "exit"
  /\ run < MaxRuns
  /\ run' = run + 1
  /\ prevOutput' = output
  /\ pc' = "check"
  /\ bytes' = <<>> /\ block' = <<>> /\ state' = <<>> /\ W' = <<>>
  /\ a' = NoWord /\ b' = NoWord /\ c' = NoWord /\ d' = NoWord
  /\ e' = NoWord /\ f' = NoWord /\ g' = NoWord /\ h' = NoWord
  /\ t' = 0
  /\ output' = <<>>
  /\ calls' = 0
  /\ UNCHANGED input

Next ==
  \/ GetLine \/ RejectTooLong \/ CopyInput \/ Pad \/ Convert \/ InitState
  \/ ExpandSchedule \/ LoadWorking \/ Round \/ AddToState \/ PrintDigest
  \/ RunAgain

Spec == Init /\ [][Next]_vars

----------------------------------------------------------------------------
\* sha256_transform on its own: the function called with a state and a
\* block drawn from small sets, not only with the arguments main passes.

TransformStates ==
  { IV, Fill(8, <<0, 0>>), Fill(8, <<65535, 65535>>),
    [i \in 1..8 |-> <<32768 + i, 65535 - i>>] }

TransformBlocks ==
  { Fill(16, <<0, 0>>), Fill(16, <<65535, 65535>>),
    [i \in 1..16 |-> <<4369 * (i - 1), 65535 - 257 * i>>] }
    \cup { ConvertToWords(Fill(16, <<0, 0>>), PaddedBytes(m)) :
             m \in {abc, Fill(56, 97)} }

InitTransform ==
  /\ pc = "schedule"
  /\ state \in TransformStates
  /\ block \in TransformBlocks
  /\ input = <<>>
  /\ bytes = <<>>
  /\ W = <<>>
  /\ a = NoWord /\ b = NoWord /\ c = NoWord /\ d = NoWord
  /\ e = NoWord /\ f = NoWord /\ g = NoWord /\ h = NoWord
  /\ t = 0
  /\ output = <<>>
  /\ calls = 0
  /\ run = 1
  /\ prevOutput = <<>>

NextTransform == ExpandSchedule \/ LoadWorking \/ Round \/ AddToState

SpecTransform == InitTransform /\ [][NextTransform]_vars

----------------------------------------------------------------------------
\* Reference definitions of FIPS 180-4 used to state the properties.  They
\* work bit by bit and on sums of halves, independently of the operators
\* above, with bit 0 the least significant bit of a word.

Bit(x, i) ==
  IF i < 16 THEN (x[2] \div Pow2(i)) % 2 ELSE (x[1] \div Pow2(i - 16)) % 2

RECURSIVE BitsSum(_, _, _)
BitsSum(bs, from, to) ==
  IF from > to THEN 0 ELSE bs[from] + 2 * BitsSum(bs, from + 1, to)

FromBits(bs) == <<BitsSum(bs, 16, 31), BitsSum(bs, 0, 15)>>

\* bit i of rotr(x, n) and of shr(x, n)
RotrBit(x, n, i) == Bit(x, (i + n) % 32)
ShrBit(x, n, i) == IF i + n <= 31 THEN Bit(x, i + n) ELSE 0

RefUpperSigma0(x) ==
  FromBits([i \in 0..31 |->
    (RotrBit(x, 2, i) + RotrBit(x, 13, i) + RotrBit(x, 22, i)) % 2])
RefUpperSigma1(x) ==
  FromBits([i \in 0..31 |->
    (RotrBit(x, 6, i) + RotrBit(x, 11, i) + RotrBit(x, 25, i)) % 2])
RefLowerSigma0(x) ==
  FromBits([i \in 0..31 |->
    (RotrBit(x, 7, i) + RotrBit(x, 18, i) + ShrBit(x, 3, i)) % 2])
RefLowerSigma1(x) ==
  FromBits([i \in 0..31 |->
    (RotrBit(x, 17, i) + RotrBit(x, 19, i) + ShrBit(x, 10, i)) % 2])
RefCh(x, y, z) ==
  FromBits([i \in 0..31 |->
    (Bit(x, i) * Bit(y, i) + (1 - Bit(x, i)) * Bit(z, i)) % 2])
RefMaj(x, y, z) ==
  FromBits([i \in 0..31 |->
    (Bit(x, i) * Bit(y, i) + Bit(x, i) * Bit(z, i) + Bit(y, i) * Bit(z, i)) % 2])

RECURSIVE SumHalf(_, _)
SumHalf(ws, k) == IF ws = <<>> THEN 0 ELSE Head(ws)[k] + SumHalf(Tail(ws), k)

\* The high half of the exact sum of the words ws, before reduction
HighSum(ws) == SumHalf(ws, 1) + (SumHalf(ws, 2) \div 65536)

\* (ws[1] + ... + ws[n]) mod 2^32
SumMod32(ws) == <<HighSum(ws) % 65536, SumHalf(ws, 2) % 65536>>

\* x < y as 32-bit unsigned numbers
Below(x, y) == x[1] < y[1] \/ (x[1] = y[1] /\ x[2] < y[2])

\* The exact sum reaches 2^32, so the reduction matters
Wraps(ws) == HighSum(ws) >= 65536

RefRound(v, kt, wt) ==
  LET T1 == SumMod32(<<v[8], RefUpperSigma1(v[5]), RefCh(v[5], v[6], v[7]),
                       kt, wt>>)
      T2 == SumMod32(<<RefUpperSigma0(v[1]), RefMaj(v[1], v[2], v[3])>>)
  IN  <<SumMod32(<<T1, T2>>), v[1], v[2], v[3], SumMod32(<<v[4], T1>>),
        v[5], v[6], v[7]>>

\* The terms of schedule word W[n] of FIPS 180-4, 16 <= n <= 63, from the
\* sequence ws = W[0], W[1], ... (indexed from 1, so W[n] is ws[n + 1])
RefScheduleTerms(ws, n) ==
  <<RefLowerSigma1(ws[n - 2 + 1]), ws[n - 7 + 1],
    RefLowerSigma0(ws[n - 15 + 1]), ws[n - 16 + 1]>>

RefScheduleWord(ws, n) == SumMod32(RefScheduleTerms(ws, n))

\* Big-endian word of four bytes
BigEndianWord(b0, b1, b2, b3) == <<b0 * 256 + b1, b2 * 256 + b3>>

\* The 8-byte big-endian encoding of a bit length n < 2^24
LengthField(n) ==
  [i \in 1..8 |-> IF i <= 5 THEN 0 ELSE (n \div Pow2(8 * (8 - i))) % 256]

LastEight(by) == [i \in 1..8 |-> by[Len(by) - 8 + i]]

\* Control points at which the padded buffer is complete
Padded == {"convert", "init", "schedule", "load", "round", "print", "exit"}

\* Control points inside and after the call of sha256_transform
Transformed == {"load", "round", "print", "exit"}

working == <<a, b, c, d, e, f, g, h>>

----------------------------------------------------------------------------
\* Properties

\* C1: the padded byte sequence has a length that is a multiple of 64 and
\* its final 8 bytes are the big-endian encoding of the message's bit
\* length, 8 x byte length.
C1_PaddingRoundTrip ==
  pc \in Padded =>
    /\ Len(bytes) % 64 = 0
    /\ LastEight(bytes) = LengthField(8 * Len(input))

\* C2: the printed digest of the 3-byte message "abc" is
\* ba7816bf8f01cfea414140de5dae2223b00361a396177a9cb410ff61f20015ad.
abcDigest ==
  <<
     "b", "a", "7", "8", "1", "6", "b", "f", "8", "f", "0", "1", "c", "f", "e", "a",
     "4", "1", "4", "1", "4", "0", "d", "e", "5", "d", "a", "e", "2", "2", "2", "3",
     "b", "0", "0", "3", "6", "1", "a", "3", "9", "6", "1", "7", "7", "a", "9", "c",
     "b", "4", "1", "0", "f", "f", "6", "1", "f", "2", "0", "0", "1", "5", "a", "d"
  >>

C2_KnownVector == (pc = "exit" /\ input = abc) => output = abcDigest

\* C3: a message of exactly 56 bytes is padded to 128 bytes and both blocks
\* are compressed.
C3_Boundary56 ==
  Len(input) = 56 =>
    /\ pc \in Padded => Len(bytes) = 128
    /\ pc = "exit" => calls = 2

\* C4: a message whose length is a multiple of 64 bytes gets one additional
\* block beginning with 0x80: padded length = original length + 64.
C4_BoundaryMultipleOf64 ==
  (pc \in Padded /\ Len(input) % 64 = 0) =>
    /\ Len(bytes) = Len(input) + 64
    /\ bytes[Len(input) + 1] = 128

\* C5: hashing the same message twice prints identical digests.
C5_Determinism == (pc = "exit" /\ run > 1) => output = prevOutput

\* C6: the empty message is padded to exactly one 64-byte block, 0x80
\* followed by 63 zero bytes with a length field of 0, and exactly one
\* compression is performed, starting from the initial hash value.
C6_EmptyMessage ==
  Len(input) = 0 =>
    /\ pc \in Padded =>
         /\ bytes = <<128>> \o Fill(63, 0)
         /\ LastEight(bytes) = LengthField(0)
    /\ pc = "schedule" => (state = IV /\ calls = 0)
    /\ pc = "load" => state = IV
    /\ pc \in Transformed => calls = 1

C6_Witness == Len(input) = 0 /\ pc = "exit" /\ calls = 1 /\ Len(output) = 64

\* C7: sha256_transform starts from a..h = the incoming state, runs exactly
\* 64 rounds t = 0..63, each computing T1, T2 and the shift of FIPS 180-4
\* with additions mod 2^32, and then adds each working variable into the
\* corresponding state word mod 2^32.
C7_Step ==
  /\ (pc = "load" /\ pc' = "round") => (working' = state /\ t' = 0)
  /\ (pc = "round" /\ pc' = "round") =>
       /\ t \in 0..63
       /\ t' = t + 1
       /\ state' = state
       /\ working' = RefRound(working, K[t + 1], W[t + 1])
  /\ (pc = "round" /\ pc' # "round") =>
       /\ t = 64
       /\ state' = [i \in 1..8 |-> SumMod32(<<state[i], working[i]>>)]

C7_Compression == [][C7_Step]_vars

\* The transform has returned and some state word wrapped: the sum is below
\* the working variable that was added.
C7_Witness ==
  /\ pc = "print"
  /\ t = 64
  /\ state # IV
  /\ \E i \in 1..8 : Below(state[i], working[i])

\* C8: W[0..15] are the block's words and, for t in 16..63,
\* W[t] = (sigma1(W[t-2]) + W[t-7] + sigma0(W[t-15]) + W[t-16]) mod 2^32,
\* every W[t] being a 32-bit word.
C8_Schedule ==
  pc = "load" =>
    /\ Len(W) = 64
    /\ \A n \in 1..16 : W[n] = block[n]
    /\ \A n \in 16..63 : W[n + 1] = RefScheduleWord(W, n)
    /\ \A n \in 1..64 : W[n] \in Word

C8_Witness ==
  /\ pc = "load"
  /\ \E n \in 16..63 : Wraps(RefScheduleTerms(W, n))

\* C9: word i handed to the transform is exactly
\* bytes[4i]*2^24 + bytes[4i+1]*2^16 + bytes[4i+2]*2^8 + bytes[4i+3].
C9_BigEndianWords ==
  pc = "init" =>
    \A i \in 0..15 :
      block[i + 1] = BigEndianWord(bytes[4 * i + 1], bytes[4 * i + 2],
                                   bytes[4 * i + 3], bytes[4 * i + 4])

\* C10: two distinct accepted messages never have the same padded buffer.
C10_PaddingInjective ==
  pc = "convert" =>
    \A m \in Messages :
      (Len(m) <= MaxInput /\ m # input) => PaddedBytes(m) # bytes

====
